---- MODULE Spec2Model ----
(***************************************************************************)
(* img2reel-service: the image download, purge and encode pipeline of      *)
(* server.js (current revision, lines 248-798) with config.js.             *)
(*                                                                         *)
(* Strings the code inspects (content types, URL paths, file extensions)   *)
(* are sequences of one-character strings, so that toLowerCase, includes,  *)
(* split, trim and path.extname are computed as the code computes them.    *)
(***************************************************************************)
EXTENDS Integers, Sequences, FiniteSets, TLC

\* ------------------------------------------------------------------ bounds
\* number of chunks a response body is delivered in, at most
MaxChunks == 2
\* length of one chunk, at most
MaxChunkLen == 3
\* number of requests started in one behaviour, at most
MaxStarts == 2

\* config.js: the byte cap, read from the environment (default 25 MB); the
\* model runs the service configured with a cap of 3 bytes.
MAX_IMAGE_BYTES == 3

\* request slots: two control flows that may overlap
Req == {"A", "B"}

\* ------------------------------------------------------------ string helpers
LowerChar(c) ==
  CASE c = "I" -> "i" [] c = "M" -> "m" [] c = "A" -> "a" [] c = "G" -> "g"
    [] c = "E" -> "e" [] c = "P" -> "p" [] c = "N" -> "n" [] c = "J" -> "j"
    [] OTHER -> c

\* String.prototype.toLowerCase
toLowerCase(s) == [i \in DOMAIN s |-> LowerChar(s[i])]

\* String.prototype.includes
includes(s, sub) ==
  \E i \in 1..(Len(s) - Len(sub) + 1) : SubSeq(s, i, i + Len(sub) - 1) = sub

\* String.prototype.endsWith
endsWith(s, suf) ==
  Len(s) >= Len(suf) /\ SubSeq(s, Len(s) - Len(suf) + 1, Len(s)) = suf

\* s.split(';')[0]
splitFirst(s) ==
  LET semis == {i \in DOMAIN s : s[i] = ";"}
  IN  IF semis = {} THEN s
      ELSE SubSeq(s, 1, (CHOOSE i \in semis : \A j \in semis : i <= j) - 1)

\* String.prototype.trim (the only white space in the inputs is the blank)
trim(s) ==
  LET solid == {i \in DOMAIN s : s[i] # " "}
  IN  IF solid = {} THEN <<>>
      ELSE SubSeq(s, CHOOSE i \in solid : \A j \in solid : i <= j,
                     CHOOSE i \in solid : \A j \in solid : i >= j)

\* path.extname (posix) of a URL pathname
extname(p) ==
  LET solid == {i \in DOMAIN p : p[i] # "/"}
      end   == IF solid = {} THEN 0 ELSE CHOOSE i \in solid : \A j \in solid : i >= j
      slashes == {i \in 1..end : p[i] = "/"}
      startPart == IF slashes = {} THEN 1
                   ELSE (CHOOSE i \in slashes : \A j \in slashes : i >= j) + 1
      dots  == {i \in startPart..end : p[i] = "."}
      startDot == IF dots = {} THEN 0 ELSE CHOOSE i \in dots : \A j \in dots : i >= j
  IN  IF end = 0 \/ startDot = 0 \/ startDot = startPart
         \/ (startDot = end /\ startDot = startPart + 1 /\ p[startPart] = ".")
      THEN <<>>
      ELSE SubSeq(p, startDot, end)

RECURSIVE Sum(_)
Sum(s) == IF s = <<>> THEN 0 ELSE Head(s) + Sum(Tail(s))

\* ------------------------------------------------------------ the numbers
\* a JavaScript number as the handlers meet it: an integer, or NaN
Num(n) == [nan |-> FALSE, val |-> n]
NaN == [nan |-> TRUE, val |-> 0]

\* Math.max and Math.min of two numbers: NaN when either is NaN
MathMax(a, b) ==
  IF a.nan \/ b.nan THEN NaN ELSE IF a.val >= b.val THEN a ELSE b
MathMin(a, b) ==
  IF a.nan \/ b.nan THEN NaN ELSE IF a.val <= b.val THEN a ELSE b

IsDigit(c) == c \in {"0", "1", "2", "3", "4", "5", "6", "7", "8", "9"}
DigitVal(c) ==
  CASE c = "0" -> 0 [] c = "1" -> 1 [] c = "2" -> 2 [] c = "3" -> 3
    [] c = "4" -> 4 [] c = "5" -> 5 [] c = "6" -> 6 [] c = "7" -> 7
    [] c = "8" -> 8 [] c = "9" -> 9

RECURSIVE DigitsValue(_)
DigitsValue(ds) ==
  IF ds = <<>> THEN 0
  ELSE 10 * DigitsValue(SubSeq(ds, 1, Len(ds) - 1)) + DigitVal(ds[Len(ds)])

\* parseInt(s, 10): leading white space is skipped, a sign is read, then the
\* longest run of decimal digits; NaN when there is no digit to read
parseInt(s) ==
  LET solid == {i \in DOMAIN s : s[i] # " "}
      first == IF solid = {} THEN Len(s) + 1
               ELSE CHOOSE i \in solid : \A j \in solid : i <= j
      signed == first <= Len(s) /\ s[first] \in {"+", "-"}
      start == IF signed THEN first + 1 ELSE first
      stops == {i \in start..Len(s) : ~IsDigit(s[i])}
      end == IF stops = {} THEN Len(s)
             ELSE (CHOOSE i \in stops : \A j \in stops : i <= j) - 1
      value == DigitsValue(SubSeq(s, start, end))
  IN  IF end < start THEN NaN
      ELSE IF signed /\ s[first] = "-" THEN Num(0 - value) ELSE Num(value)

\* config.js: the default frame size
DEFAULT_WIDTH == 1080
DEFAULT_HEIGHT == 1920

\* q.x || d: a parameter that is absent or empty gives way to the default
OrDefault(text, default) == IF text = <<>> THEN default ELSE text

\* parseParams(q), lines 332-339; q holds the text of each parameter, <<>>
\* for a parameter the request does not carry
parseParams(q) ==
  [duration |-> MathMin(MathMax(parseInt(OrDefault(q.duration, <<"2", "0">>)),
                                Num(1)), Num(90)),
   fps      |-> MathMin(MathMax(parseInt(OrDefault(q.fps, <<"3", "0">>)),
                                Num(1)), Num(60)),
   width    |-> IF q.width = <<>> THEN Num(DEFAULT_WIDTH) ELSE parseInt(q.width),
   height   |-> IF q.height = <<>> THEN Num(DEFAULT_HEIGHT) ELSE parseInt(q.height)]

\* line 757: the intro duration of the compressed route
parseIntroDuration(q) ==
  MathMin(MathMax(parseInt(OrDefault(q.introDuration, <<"0">>)), Num(0)), Num(1))

\* JSON.stringify of a number, as res.json sends it: NaN is sent as null
toJSON(n) == [null |-> n.nan, val |-> IF n.nan THEN 0 ELSE n.val]

\* ------------------------------------------------------------- the helpers
None == <<"none">>

EXT_JPG  == <<".", "j", "p", "g">>
EXT_JPEG == <<".", "j", "p", "e", "g">>
EXT_PNG  == <<".", "p", "n", "g">>
EXT_MP4  == <<".", "m", "p", "4">>

ImagePrefix == <<"i", "m", "a", "g", "e", "/">>
CT_JPEG == ImagePrefix \o <<"j", "p", "e", "g">>
CT_JPG  == ImagePrefix \o <<"j", "p", "g">>
CT_PNG  == ImagePrefix \o <<"p", "n", "g">>

ALLOWED_CONTENT_TYPES == {CT_JPEG, CT_JPG, CT_PNG}
ALLOWED_EXTS == {EXT_JPG, EXT_JPEG, EXT_PNG}

pickExtFromCT(ct) ==
  IF ct = <<>> THEN None
  ELSE LET c == toLowerCase(ct)
       IN  IF includes(c, <<"j", "p", "e", "g">>) \/ includes(c, <<"j", "p", "g">>)
           THEN EXT_JPG
           ELSE IF includes(c, <<"p", "n", "g">>) THEN EXT_PNG ELSE None

\* mutant: the extension of the URL path is taken without the allow-list
pickExtFromURL_AnyExt(url) ==
  LET ext == toLowerCase(extname(url))
  IN  IF ext # <<>> THEN ext ELSE None

\* a URL is modelled by its pathname (new URL(url).pathname)
pickExtFromURL(url) ==
  LET ext == toLowerCase(extname(url))
  IN  IF ext \in ALLOWED_EXTS THEN ext ELSE None

\* ------------------------------------------------------------ the inputs
\* content-type header values; <<>> is an absent (or empty) header
CT_UPPER   == <<"I", "M", "A", "G", "E", "/", "P", "N", "G">>
CT_PARAM   == CT_PNG \o <<";", " ", "q">>
CT_SPACED  == CT_JPEG \o <<" ", ";", "q">>
CT_HTML    == <<"t", "e", "x", "t", "/", "h", "t", "m", "l">>
CT_GIF     == ImagePrefix \o <<"g", "i", "f">>
CT_XPNG    == ImagePrefix \o <<"x", "-", "p", "n", "g">>
CT_HTMLJPG == CT_HTML \o <<";", "j", "p", "g">>

ContentTypes ==
  {<<>>, CT_JPEG, CT_JPG, CT_PNG, CT_UPPER, CT_PARAM, CT_SPACED, CT_HTML,
   CT_GIF, CT_XPNG, CT_HTMLJPG}

URL_JPG    == <<"/", "a", ".", "j", "p", "g">>
URL_JPEG   == <<"/", "a", ".", "J", "P", "E", "G">>
URL_PNG    == <<"/", "a", ".", "p", "n", "g">>
URL_GIF    == <<"/", "a", ".", "g", "i", "f">>
URL_NOEXT  == <<"/", "a">>
URL_DIR    == <<"/", "a", ".", "p", "n", "g", "/", "b">>
URL_DOT    == <<"/", ".", "p", "n", "g">>
URL_SLASH  == <<"/", "a", ".", "p", "n", "g", "/">>

UrlPaths ==
  {URL_JPG, URL_JPEG, URL_PNG, URL_GIF, URL_NOEXT, URL_DIR, URL_DOT, URL_SLASH}

\* response status; 0 stands for a transport failure (no response at all)
Statuses == {0, 200, 304, 404}

\* content-length header: -1 is an absent or non-numeric header
DeclaredLens == {-1} \cup (0..(MAX_IMAGE_BYTES + 2))

ChunkSeqs ==
  UNION {[1..n -> 1..MaxChunkLen] : n \in 0..MaxChunks}

Sources ==
  [status : Statuses, ct : ContentTypes, url : UrlPaths,
   declared : DeclaredLens, chunks : ChunkSeqs]

\* sources the request pipeline is exercised with: a small PNG, and a body
\* whose first chunk outgrows the cap although no length was declared
GoodSrc == [status |-> 200, ct |-> CT_PNG, url |-> URL_PNG, declared |-> -1,
            chunks |-> <<1>>]
BigSrc  == [status |-> 200, ct |-> <<>>, url |-> URL_JPG, declared |-> -1,
            chunks |-> <<MAX_IMAGE_BYTES + 1, 1>>]
NoSrc   == [status |-> 0, ct |-> <<>>, url |-> <<>>, declared |-> -1, chunks |-> <<>>]
PipeSources == {GoodSrc, BigSrc}

\* originalname of an uploaded file
UP_PNG == <<"p", ".", "P", "N", "G">>
UP_GIF == <<"p", ".", "g", "i", "f">>
UploadNames == {UP_PNG, UP_GIF}

Routes == {"buffer", "stream", "compressed"}

\* texts of the numeric parameters: absent, in range, out of range on either
\* side, with trailing text, with a fraction, with leading blank, not numeric
TXT_0    == <<"0">>
TXT_1    == <<"1">>
TXT_7    == <<"7">>
TXT_91   == <<"9", "1">>
TXT_NEG  == <<"-", "5">>
TXT_ABC  == <<"a", "b", "c">>
TXT_7X   == <<"7", "x">>
TXT_FRAC == <<" ", "1", ".", "9">>
ParamTexts == {<<>>, TXT_0, TXT_1, TXT_7, TXT_91, TXT_NEG, TXT_ABC, TXT_7X, TXT_FRAC}

\* a request that carries none of the numeric parameters
NoParams == [duration |-> <<>>, fps |-> <<>>, width |-> <<>>, height |-> <<>>,
             introDuration |-> <<>>]
\* the intro clip asked for with its full second
IntroParams == [NoParams EXCEPT !.introDuration = TXT_1]
\* a request that sets every parameter of the frame
FrameParams == [NoParams EXCEPT !.duration = TXT_7, !.fps = TXT_91,
                                !.width = TXT_7, !.height = TXT_7X]

\* ------------------------------------------------------------------- state
VARIABLES
  pc,        \* [Req -> position of the request's control flow]
  req,       \* [Req -> the request: route, url, file, introUrl, introDuration]
  loc,       \* [Req -> local variables of the handler and of the encoder]
  fetch,     \* [Req -> the download in progress]
  tmp,       \* the files of /tmp
  videoDir,  \* the entries of VIDEO_DIR
  response,  \* [Req -> the response sent to the current request]
  log,       \* [Req -> the stages the current request went through]
  started,   \* number of requests received so far
  pending    \* the filesystem operations on /tmp issued and not yet settled

vars == <<pc, req, loc, fetch, tmp, videoDir, response, log, started, pending>>

NoName == <<0, "none">>

\* an error message: what it says (kind), the numbers it cites (-1 stands for
\* a number the message does not cite) and the files whose path it cites
ErrorMessage(kind, observed, limit) ==
  [kind |-> kind, observed |-> observed, limit |-> limit, names |-> {}]

Plain(kind) == ErrorMessage(kind, -1, -1)
NoError == Plain("none")

\* line 363: `Failed to fetch the image: ...`; the buffered download rethrows
\* the error of axios (line 447)
FailedToFetch == Plain("fetch_failed")
\* lines 374, 383, 435: `Only PNG or JPG URLs are allowed ...`
OnlyPngOrJpg == Plain("not_allowed")
\* lines 390, 439: `Image too large: ${n} bytes (limit ${MAX_IMAGE_BYTES}).`
ImageTooLarge(n) == ErrorMessage("too_large", n, MAX_IMAGE_BYTES)
\* line 402, wrapped at line 411: `Image exceeds max size of
\* ${MAX_IMAGE_BYTES} bytes.`
ImageExceeds == ErrorMessage("exceeds", -1, MAX_IMAGE_BYTES)
\* line 411 for any other failure of the pipeline
TransferFailed == Plain("transfer")

NoFetch == [phase |-> "none", strategy |-> "none", which |-> "none", src |-> NoSrc,
            downloaded |-> 0, idx |-> 0, flushed |-> 0, err |-> NoError,
            file |-> NoName]

NoReq == [route |-> "none", hasUrl |-> FALSE, url |-> NoSrc, hasFile |-> FALSE,
          originalname |-> <<>>, hasIntro |-> FALSE, introUrl |-> NoSrc,
          params |-> NoParams]

NoLoc == [serial |-> 0, opts |-> parseParams(NoParams), introDuration |-> Num(0),
          mainPath |-> NoName, introPath |-> NoName,
          snapshot |-> {}, purgeFault |-> FALSE, id |-> NoName,
          tmpMain |-> NoName, tmpIntro |-> NoName, listPath |-> NoName,
          invoked |-> FALSE, err |-> NoError, released |-> {}, lostTo |-> 0]

\* the duration, fps, width and height a success response reports
NoReport == [present |-> FALSE, duration |-> toJSON(NaN), fps |-> toJSON(NaN),
             width |-> toJSON(NaN), height |-> toJSON(NaN)]
Report(opts) ==
  [present |-> TRUE, duration |-> toJSON(opts.duration), fps |-> toJSON(opts.fps),
   width |-> toJSON(opts.width), height |-> toJSON(opts.height)]

NoResponse == [status |-> 0, ok |-> FALSE, id |-> NoName, error |-> NoError,
               reported |-> NoReport]

\* a file of /tmp or an entry of VIDEO_DIR
File(name, ext, bytes, st) ==
  [name |-> name, ext |-> ext, bytes |-> bytes, st |-> st, isFile |-> TRUE,
   clips |-> <<>>]

\* a stretch of video made from one still image: `-t ${duration}`
Clip(kind, duration) == [kind |-> kind, duration |-> duration]

\* a filesystem operation that was issued and whose outcome is not awaited
\* by the code that issued it, or not yet there: the open of createWriteStream
\* (line 394), the unlinks of the handlers (lines 720, 741, 775-776)
Op(op, name, ext, by) == [op |-> op, name |-> name, ext |-> ext, by |-> by]

Names(dir) == {f.name : f \in dir}
Without(dir, names) == {f \in dir : f.name \notin names}
Entry(dir, name) == CHOOSE f \in dir : f.name = name

\* mutant: the name depends on the kind of file only, not on the request
uuidv4_PerKind(serial, kind) == <<1, kind>>

\* uuidv4(): a name no other call returns; the n-th request's file of a kind
uuidv4(serial, kind) == <<serial, kind>>

\* mutant: every artifact is given the same identifier
ArtifactId_Fixed(serial) == uuidv4(0, "reel")

\* lines 453, 490: const id = uuidv4(), the identifier of the artifact
ArtifactId(serial) == uuidv4(serial, "reel")

\* entries found in VIDEO_DIR when the process starts: an artifact of an
\* earlier run, a file that is no artifact, a directory named like one
OldArtifact == File(<<0, "old">>, <<".", "M", "P", "4">>, 1, "complete")
OtherFile   == File(<<0, "notes">>, <<".", "t", "x", "t">>, 1, "complete")
OldDir      == [File(<<0, "dir">>, EXT_MP4, 0, "complete") EXCEPT !.isFile = FALSE]
PreExisting == {OldArtifact, OtherFile, OldDir}

Init ==
  /\ pc = [r \in Req |-> "idle"]
  /\ req = [r \in Req |-> NoReq]
  /\ loc = [r \in Req |-> NoLoc]
  /\ fetch = [r \in Req |-> NoFetch]
  /\ tmp = {}
  /\ videoDir = {}
  /\ response = [r \in Req |-> NoResponse]
  /\ log = [r \in Req |-> <<>>]
  /\ started = 0
  /\ pending = {}

\* --------------------------------------------------------------- Downloaders
\* validateStatus of the two axios calls; a transport failure rejects both
StreamStatusOk(s) == s >= 200 /\ s < 400
BufferStatusOk(s) == s >= 200 /\ s < 300

\* mutant: the content type is not held against the allow-list (lines 370-376
\* left out)
StreamExt_NoTypeCheck(ct, url) ==
  LET byCT == pickExtFromCT(toLowerCase(ct))
  IN  IF byCT # None THEN byCT ELSE pickExtFromURL(url)

\* downloadPngOrJpgStream, lines 366-384: the extension to stage under, or None
\* when the response is refused
StreamExt(ct, url) ==
  LET rawCT == toLowerCase(ct)
      contentType == trim(splitFirst(rawCT))
      byCT == pickExtFromCT(rawCT)
      byExt == pickExtFromURL(url)
      ext == IF byCT # None THEN byCT ELSE byExt
  IN  IF contentType \notin ALLOWED_CONTENT_TYPES /\ byExt = None THEN None
      ELSE ext

\* downloadPngOrJpgByBuffer, lines 429-436
BufferExt(ct, url) ==
  LET c == toLowerCase(ct)
      byCT == pickExtFromCT(c)
      byExt == pickExtFromURL(url)
      ext == IF byCT # None THEN byCT ELSE byExt
  IN  IF ext = None \/ (byCT # None /\ c \notin ALLOWED_CONTENT_TYPES) THEN None
      ELSE ext

\* lines 386-388: a numeric content-length header above the cap
DeclaredTooLarge(declared) == declared # -1 /\ declared > MAX_IMAGE_BYTES

\* line 438: the received body is longer than the cap
BufferTooLarge(byteLength) == byteLength # 0 /\ byteLength > MAX_IMAGE_BYTES

\* mutant: the counter is compared one byte too late
OverCap_OffByOne(downloaded) == downloaded > MAX_IMAGE_BYTES + 1

\* line 400: the bytes counted so far are over the cap
OverCap(downloaded) == downloaded > MAX_IMAGE_BYTES

Thrown(f, err) == [f EXCEPT !.phase = "thrown", !.err = err]

\* downloadPngOrJpgStream as a function of the response, when the transfer
\* itself does not fail: the extension it stages the body under, or None
\* when it throws
StreamOutcome(s) ==
  IF ~StreamStatusOk(s.status) THEN None
  ELSE IF StreamExt(s.ct, s.url) = None THEN None
  ELSE IF DeclaredTooLarge(s.declared) THEN None
  ELSE IF \E k \in 1..Len(s.chunks) : OverCap(Sum(SubSeq(s.chunks, 1, k))) THEN None
  ELSE StreamExt(s.ct, s.url)

\* downloadPngOrJpgByBuffer as a function of the response
BufferOutcome(s) ==
  IF ~BufferStatusOk(s.status) THEN None
  ELSE IF BufferExt(s.ct, s.url) = None THEN None
  ELSE IF BufferTooLarge(Sum(s.chunks)) THEN None
  ELSE BufferExt(s.ct, s.url)

\* axios.get settled for a streamed download: lines 347-404.  The response is
\* examined, the file is named and createWriteStream asks for it to be opened;
\* the file is not there yet when the function reaches its await
StreamResponse(r) ==
  /\ fetch[r].phase = "request" /\ fetch[r].strategy = "stream"
  /\ LET f == fetch[r]
         s == f.src
         ext == StreamExt(s.ct, s.url)
         name == uuidv4(loc[r].serial, f.which)
     IN  IF ~StreamStatusOk(s.status)
         THEN /\ fetch' = [fetch EXCEPT ![r] = Thrown(f, FailedToFetch)]
              /\ pending' = pending
         ELSE IF ext = None
         THEN /\ fetch' = [fetch EXCEPT ![r] = Thrown(f, OnlyPngOrJpg)]
              /\ pending' = pending
         ELSE IF DeclaredTooLarge(s.declared)
         THEN /\ fetch' = [fetch EXCEPT ![r] = Thrown(f, ImageTooLarge(s.declared))]
              /\ pending' = pending
         ELSE /\ fetch' = [fetch EXCEPT ![r] = [f EXCEPT !.phase = "streaming",
                                                        !.file = name]]
              /\ pending' = pending \cup {Op("open", name, ext, loc[r].serial)}
  /\ UNCHANGED <<pc, req, loc, tmp, videoDir, response, log, started>>

\* a chunk arrives: the counting listener (lines 398-404) adds its length and
\* aborts when the count is over the cap; the pipe hands the chunk to the
\* write stream, which writes it later
StreamChunk(r) ==
  /\ fetch[r].phase = "streaming"
  /\ fetch[r].idx < Len(fetch[r].src.chunks)
  /\ LET f == fetch[r]
         n == f.src.chunks[f.idx + 1]
         downloaded == f.downloaded + n
     IN  IF OverCap(downloaded)
         THEN fetch' = [fetch EXCEPT ![r] = [f EXCEPT !.phase = "aborted",
                          !.downloaded = downloaded, !.idx = f.idx + 1,
                          !.err = ImageExceeds]]
         ELSE fetch' = [fetch EXCEPT ![r] = [f EXCEPT
                          !.downloaded = downloaded, !.idx = f.idx + 1]]
  /\ UNCHANGED <<pc, req, loc, tmp, videoDir, response, log, started, pending>>

\* the write stream, once its file is open, writes the next chunk it was
\* handed; what it holds when the pipeline is torn down is dropped, and
\* whether the chunk that crossed the cap is written before that is not
\* decided by the code
StreamWrite(r) ==
  /\ fetch[r].phase \in {"streaming", "aborted"}
  /\ fetch[r].file \in Names(tmp)
  /\ fetch[r].flushed < fetch[r].idx
  /\ LET f == fetch[r]
         old == Entry(tmp, f.file)
     IN  /\ tmp' = Without(tmp, {f.file})
                     \cup {[old EXCEPT !.bytes = old.bytes + f.src.chunks[f.flushed + 1]]}
         /\ fetch' = [fetch EXCEPT ![r] = [f EXCEPT !.flushed = f.flushed + 1]]
  /\ UNCHANGED <<pc, req, loc, videoDir, response, log, started, pending>>

\* the transfer fails under way (reset, timeout): pipeline rejects
StreamError(r) ==
  /\ fetch[r].phase = "streaming"
  /\ fetch' = [fetch EXCEPT ![r] = [@ EXCEPT !.phase = "aborted",
                                             !.err = TransferFailed]]
  /\ UNCHANGED <<pc, req, loc, tmp, videoDir, response, log, started, pending>>

\* the body ended and the write stream wrote all of it: pipeline resolves,
\* line 408
StreamEnd(r) ==
  /\ fetch[r].phase = "streaming"
  /\ fetch[r].idx = Len(fetch[r].src.chunks)
  /\ fetch[r].flushed = fetch[r].idx
  /\ fetch[r].file \in Names(tmp)
  /\ fetch' = [fetch EXCEPT ![r] = [@ EXCEPT !.phase = "returned"]]
  /\ tmp' = Without(tmp, {fetch[r].file})
              \cup {[Entry(tmp, fetch[r].file) EXCEPT !.st = "complete"]}
  /\ UNCHANGED <<pc, req, loc, videoDir, response, log, started, pending>>

\* an unlink in /tmp whose failure is dropped (try { await fsp.unlink } catch
\* {}, or a callback that ignores the error): the file is removed, or it
\* cannot be removed and stays; a file that is not there stays away
Unlinked(dir, name) == {Without(dir, {name}), dir}

\* pipeline rejected: lines 409-412.  The unlink is awaited and its failure
\* dropped: it fails when the file cannot be removed, and when the open of
\* line 394 has not created the file yet, which then appears afterwards
StreamCleanup(r) ==
  /\ fetch[r].phase = "aborted"
  /\ fetch' = [fetch EXCEPT ![r] = [@ EXCEPT !.phase = "thrown", !.file = NoName]]
  /\ tmp' \in Unlinked(tmp, fetch[r].file)
  /\ UNCHANGED <<pc, req, loc, videoDir, response, log, started, pending>>

\* an operation on /tmp that nothing waits for settles: the open of a write
\* stream creates the empty file (flags 'wx': unless the name is taken); an
\* unlink removes the file, or fails and is ignored
Settle ==
  \E p \in pending :
    /\ pending' = pending \ {p}
    /\ IF p.op = "open"
       THEN tmp' = IF p.name \in Names(tmp) THEN tmp
                   ELSE tmp \cup {File(p.name, p.ext, 0, "partial")}
       ELSE tmp' \in Unlinked(tmp, p.name)
    /\ UNCHANGED <<pc, req, loc, fetch, videoDir, response, log, started>>

\* axios.get settled for a buffered download: lines 416-449
BufferResponse(r) ==
  /\ fetch[r].phase = "request" /\ fetch[r].strategy = "buffer"
  /\ LET f == fetch[r]
         s == f.src
         ext == BufferExt(s.ct, s.url)
         byteLength == Sum(s.chunks)
         name == uuidv4(loc[r].serial, f.which)
     IN  IF ~BufferStatusOk(s.status)
         THEN /\ fetch' = [fetch EXCEPT ![r] = Thrown(f, FailedToFetch)]
              /\ tmp' = tmp
         ELSE IF ext = None
         THEN /\ fetch' = [fetch EXCEPT ![r] = Thrown(f, OnlyPngOrJpg)]
              /\ tmp' = tmp
         ELSE IF BufferTooLarge(byteLength)
         THEN /\ fetch' = [fetch EXCEPT ![r] = Thrown(f, ImageTooLarge(byteLength))]
              /\ tmp' = tmp
         ELSE /\ fetch' = [fetch EXCEPT ![r] = [f EXCEPT !.phase = "returned",
                              !.downloaded = byteLength, !.file = name]]
              /\ tmp' = tmp \cup {File(name, ext, byteLength, "complete")}
  /\ UNCHANGED <<pc, req, loc, videoDir, response, log, started, pending>>

Download(r) ==
  \/ StreamResponse(r)
  \/ StreamChunk(r)
  \/ StreamWrite(r)
  \/ StreamError(r)
  \/ StreamEnd(r)
  \/ StreamCleanup(r)
  \/ BufferResponse(r)

\* a download called with url, as the handlers call it
BeginFetch(strategy, which, src) ==
  [NoFetch EXCEPT !.phase = "request", !.strategy = strategy, !.which = which,
                  !.src = src]

\* ---- one download of any source, by either strategy
InitFetch ==
  /\ \E strategy \in {"stream", "buffer"}, src \in Sources :
       /\ fetch = [r \in Req |->
                     IF r = "A" THEN BeginFetch(strategy, "img", src) ELSE NoFetch]
       /\ req = [r \in Req |->
                   IF r = "A" THEN [NoReq EXCEPT !.route = strategy, !.hasUrl = TRUE,
                                                 !.url = src]
                   ELSE NoReq]
  /\ pc = [r \in Req |-> IF r = "A" THEN "fetch_main" ELSE "idle"]
  /\ loc = [r \in Req |-> IF r = "A" THEN [NoLoc EXCEPT !.serial = 1] ELSE NoLoc]
  /\ tmp = {}
  /\ videoDir = {}
  /\ response = [r \in Req |-> NoResponse]
  /\ log = [r \in Req |-> <<>>]
  /\ started = 1
  /\ pending = {}

NextFetch ==
  \/ StreamResponse("A")
  \/ StreamChunk("A")
  \/ StreamWrite("A")
  \/ Settle
  \/ StreamError("A")
  \/ StreamEnd("A")
  \/ StreamCleanup("A")
  \/ BufferResponse("A")

SpecFetch == InitFetch /\ [][NextFetch]_vars

\* ------------------------------------------------------------------ Routes
Replied(status, ok, id, error) ==
  [status |-> status, ok |-> ok, id |-> id, error |-> error, reported |-> NoReport]

\* the catch block of a handler: res.status(500).json({ ok: false, error })
Caught(error) == Replied(500, FALSE, NoName, error)

\* mutant: the purge is awaited before the intro image is downloaded
HandlerNext_PurgeBeforeIntro(route, stage, hasIntro) ==
  CASE stage = "fetch_main" -> "purge"
    [] stage = "purge" ->
         IF route = "compressed" /\ hasIntro THEN "fetch_intro" ELSE "encode"
    [] stage = "fetch_intro" -> "encode"
    [] stage = "encode" -> "respond"

\* the order of the awaits of a handler: the stage that follows `stage`
HandlerNext(route, stage, hasIntro) ==
  CASE stage = "fetch_main" ->
         IF route = "compressed" /\ hasIntro THEN "fetch_intro" ELSE "purge"
    [] stage = "fetch_intro" -> "purge"
    [] stage = "purge" -> "encode"
    [] stage = "encode" -> "respond"

\* the download a route uses for its url
Strategy(route) == IF route = "buffer" THEN "buffer" ELSE "stream"

\* mutant: the declared name of the upload is not examined
UploadAllowed_AnyName(originalname) == TRUE

\* line 711-712: the upload's declared name carries an allowed extension
UploadAllowed(originalname) == toLowerCase(extname(originalname)) \in ALLOWED_EXTS

\* mutant: a request without url and without file is taken for an upload
InputOf_MissingAsUpload(q) ==
  IF q.hasUrl THEN "url"
  ELSE IF q.route = "buffer" /\ (q.hasFile => UploadAllowed(q.originalname))
       THEN "upload"
  ELSE IF q.route = "buffer" THEN "bad_upload"
  ELSE "missing"

\* mutant: the buffer route takes every upload as its input
InputOf_AnyUpload(q) ==
  IF q.hasUrl THEN "url"
  ELSE IF q.route = "buffer" /\ q.hasFile THEN "upload"
  ELSE "missing"

\* where a handler takes its input from: lines 708-716 for the buffer route,
\* lines 736 and 760 for the two stream routes, which look at q.url only
InputOf(q) ==
  IF q.hasUrl THEN "url"
  ELSE IF q.route = "buffer" /\ q.hasFile
       THEN IF UploadAllowed(q.originalname) THEN "upload" ELSE "bad_upload"
  ELSE "missing"

\* what a request may carry: every route takes the multipart file that multer
\* stores, with or without a url
Requests ==
  {q \in [route : Routes, hasUrl : BOOLEAN, url : PipeSources \cup {NoSrc},
          hasFile : BOOLEAN, originalname : UploadNames \cup {<<>>},
          hasIntro : BOOLEAN, introUrl : PipeSources \cup {NoSrc},
          params : {NoParams, IntroParams, FrameParams}] :
     /\ q.hasUrl <=> q.url # NoSrc
     /\ q.hasFile <=> q.originalname # <<>>
     /\ q.hasIntro <=> q.introUrl # NoSrc
     /\ (q.hasUrl /\ q.hasFile) =>
          q.url = GoodSrc /\ ~q.hasIntro /\ q.params = NoParams
     /\ q.hasIntro => q.route = "compressed" /\ q.hasUrl
     /\ q.params = IntroParams => q.route = "compressed" /\ q.hasUrl
     /\ q.params = FrameParams => q.route = "stream" /\ q.hasUrl}

\* the handler from its first line to its first await (lines 703-716,
\* 732-738, 753-762), run on request q with locals l
Enter(r, q, l) ==
  IF InputOf(q) = "url"
  THEN /\ pc' = [pc EXCEPT ![r] = "fetch_main"]
       /\ fetch' = [fetch EXCEPT ![r] = BeginFetch(Strategy(q.route), "img", q.url)]
       /\ loc' = [loc EXCEPT ![r] = l]
       /\ response' = [response EXCEPT ![r] = NoResponse]
       /\ log' = [log EXCEPT ![r] = <<>>]
  ELSE IF InputOf(q) = "upload"
  THEN /\ pc' = [pc EXCEPT ![r] = "purge"]
       /\ loc' = [loc EXCEPT ![r] =
                    [l EXCEPT !.mainPath = uuidv4(l.serial, "upload")]]
       /\ response' = [response EXCEPT ![r] = NoResponse]
       /\ log' = [log EXCEPT ![r] = <<"staged_main">>]
       /\ fetch' = [fetch EXCEPT ![r] = NoFetch]
  ELSE IF InputOf(q) = "bad_upload"
  THEN /\ pc' = [pc EXCEPT ![r] = "done"]
       /\ loc' = [loc EXCEPT ![r] = l]
       /\ response' = [response EXCEPT ![r] = Caught(Plain("upload_not_allowed"))]
       /\ log' = [log EXCEPT ![r] = <<>>]
       /\ fetch' = [fetch EXCEPT ![r] = NoFetch]
  ELSE /\ pc' = [pc EXCEPT ![r] = "done"]
       /\ loc' = [loc EXCEPT ![r] = l]
       /\ response' = [response EXCEPT ![r] =
                         Replied(400, FALSE, NoName, Plain("provide_url"))]
       /\ log' = [log EXCEPT ![r] = <<>>]
       /\ fetch' = [fetch EXCEPT ![r] = NoFetch]

\* a request arrives.  upload.single('file') runs before the handler: a
\* request that carries a file waits for multer to store it; without a file
\* the handler runs up to its first await
Receive(r, q) ==
  /\ pc[r] \in {"idle", "done"}
  /\ started < MaxStarts
  /\ LET serial == started + 1
         l == [NoLoc EXCEPT !.serial = serial,
                            !.opts = parseParams(q.params),
                            !.introDuration = IF q.route = "compressed"
                                              THEN parseIntroDuration(q.params)
                                              ELSE Num(0)]
     IN  /\ req' = [req EXCEPT ![r] = q]
         /\ started' = serial
         /\ IF q.hasFile
            THEN /\ pc' = [pc EXCEPT ![r] = "upload"]
                 /\ loc' = [loc EXCEPT ![r] = l]
                 /\ response' = [response EXCEPT ![r] = NoResponse]
                 /\ log' = [log EXCEPT ![r] = <<>>]
                 /\ fetch' = [fetch EXCEPT ![r] = NoFetch]
            ELSE Enter(r, q, l)
  /\ UNCHANGED <<tmp, videoDir, pending>>

\* multer's disk storage opens the file it stores the upload in: the file is
\* in /tmp, empty
UploadOpen(r) ==
  /\ pc[r] = "upload"
  /\ uuidv4(loc[r].serial, "upload") \notin Names(tmp)
  /\ tmp' = tmp \cup {File(uuidv4(loc[r].serial, "upload"), <<>>, 0, "partial")}
  /\ UNCHANGED <<pc, req, loc, fetch, videoDir, response, log, started, pending>>

\* multer has written the upload and closed the file; the handler is the
\* next middleware and has not run yet
UploadStored(r) ==
  /\ pc[r] = "upload"
  /\ uuidv4(loc[r].serial, "upload") \in Names(tmp)
  /\ LET up == uuidv4(loc[r].serial, "upload")
     IN  tmp' = Without(tmp, {up}) \cup {File(up, <<>>, 1, "complete")}
  /\ pc' = [pc EXCEPT ![r] = "handler"]
  /\ UNCHANGED <<req, loc, fetch, videoDir, response, log, started, pending>>

\* the handler of a request with a stored upload runs up to its first await
RunHandler(r) ==
  /\ pc[r] = "handler"
  /\ Enter(r, req[r], loc[r])
  /\ UNCHANGED <<req, tmp, videoDir, started, pending>>

\* the steps of upload.single('file') on a request that carries a file
Multer(r) == UploadOpen(r) \/ UploadStored(r) \/ RunHandler(r)

Start(r) == \E q \in Requests : Receive(r, q)

\* the requests of the runs in which two control flows overlap: every route,
\* by url or by upload, with and without an intro clip
Overlapping ==
  {q \in Requests :
     /\ q.hasUrl => q.url = GoodSrc
     /\ q.hasIntro => q.introUrl = GoodSrc /\ q.params = IntroParams
     /\ q.hasFile => q.route = "buffer" /\ q.originalname = UP_PNG /\ ~q.hasUrl
     /\ q.hasUrl \/ q.hasFile
     /\ ~q.hasIntro => q.params \in {NoParams, FrameParams}}

StartOverlapping(r) == \E q \in Overlapping : Receive(r, q)

\* the awaited download settled: lines 709, 738, 762-766
AfterFetch(r) ==
  /\ pc[r] \in {"fetch_main", "fetch_intro"}
  /\ fetch[r].phase \in {"returned", "thrown"}
  /\ IF fetch[r].phase = "thrown"
     THEN /\ pc' = [pc EXCEPT ![r] = "done"]
          /\ response' = [response EXCEPT ![r] = Caught(fetch[r].err)]
          /\ fetch' = [fetch EXCEPT ![r] = NoFetch]
          /\ UNCHANGED <<loc, log>>
     ELSE LET next == HandlerNext(req[r].route, pc[r], req[r].hasIntro)
          IN  /\ pc' = [pc EXCEPT ![r] = next]
              /\ loc' = [loc EXCEPT ![r] =
                           IF pc[r] = "fetch_main"
                           THEN [@ EXCEPT !.mainPath = fetch[r].file]
                           ELSE [@ EXCEPT !.introPath = fetch[r].file]]
              /\ log' = [log EXCEPT ![r] =
                           Append(@, IF pc[r] = "fetch_main" THEN "staged_main"
                                     ELSE "staged_intro")]
              /\ fetch' = [fetch EXCEPT ![r] =
                             IF next = "fetch_intro"
                             THEN BeginFetch("stream", "intro_img", req[r].introUrl)
                             ELSE NoFetch]
              /\ UNCHANGED response
  /\ UNCHANGED <<req, tmp, videoDir, started, pending>>

\* ------------------------------------------------------------ clearVideoDir
\* mutant: the name is matched without toLowerCase
ClearFilter_CaseSensitive(d) == d.isFile /\ endsWith(d.ext, EXT_MP4)

\* mutant: the test of the name is negated
ClearFilter_Negated(d) == d.isFile /\ ~endsWith(toLowerCase(d.ext), EXT_MP4)

\* mutant: the kind of the entry is not tested
ClearFilter_AnyEntry(d) == endsWith(toLowerCase(d.ext), EXT_MP4)

\* line 324: the entries the purge deletes
ClearFilter(d) == d.isFile /\ endsWith(toLowerCase(d.ext), EXT_MP4)

\* the names of the entries the purge found and issues an unlink for
Listed(dir) == {d.name : d \in {e \in dir : ClearFilter(e)}}

\* mutant: a failure of mkdir or readdir leaves clearVideoDir as an exception
PurgeList_Throws(r) ==
  /\ pc[r] = "purge"
  /\ \/ /\ Listed(videoDir) # {}
        /\ loc' = [loc EXCEPT ![r] = [@ EXCEPT !.snapshot = Listed(videoDir)]]
        /\ pc' = [pc EXCEPT ![r] = "purge_unlink"]
        /\ log' = [log EXCEPT ![r] = Append(@, "purge_start")]
        /\ UNCHANGED response
     \/ /\ Listed(videoDir) = {}
        /\ pc' = [pc EXCEPT ![r] = HandlerNext(req[r].route, "purge", req[r].hasIntro)]
        /\ log' = [log EXCEPT ![r] = @ \o <<"purge_start", "purge_end">>]
        /\ UNCHANGED <<loc, response>>
     \/ /\ loc' = [loc EXCEPT ![r] = [@ EXCEPT !.purgeFault = TRUE]]
        /\ pc' = [pc EXCEPT ![r] = "done"]
        /\ log' = [log EXCEPT ![r] = Append(@, "purge_start")]
        /\ response' = [response EXCEPT ![r] = Caught(Plain("purge"))]
  /\ UNCHANGED <<req, fetch, tmp, videoDir, started, pending>>

\* lines 320-325: mkdir and readdir, then one unlink per matching entry is
\* issued; with no matching entry Promise.all resolves at once; a failure of
\* mkdir or readdir is caught at line 327
PurgeList(r) ==
  /\ pc[r] = "purge"
  /\ \/ /\ Listed(videoDir) # {}
        /\ loc' = [loc EXCEPT ![r] = [@ EXCEPT !.snapshot = Listed(videoDir)]]
        /\ pc' = [pc EXCEPT ![r] = "purge_unlink"]
        /\ log' = [log EXCEPT ![r] = Append(@, "purge_start")]
     \/ /\ Listed(videoDir) = {}
        /\ pc' = [pc EXCEPT ![r] = HandlerNext(req[r].route, "purge", req[r].hasIntro)]
        /\ log' = [log EXCEPT ![r] = @ \o <<"purge_start", "purge_end">>]
        /\ UNCHANGED loc
     \/ /\ loc' = [loc EXCEPT ![r] = [@ EXCEPT !.purgeFault = TRUE]]
        /\ pc' = [pc EXCEPT ![r] = HandlerNext(req[r].route, "purge", req[r].hasIntro)]
        /\ log' = [log EXCEPT ![r] = @ \o <<"purge_start", "purge_end">>]
  /\ UNCHANGED <<req, fetch, tmp, videoDir, response, started, pending>>

\* lines 325-326: the unlinks settle one by one, each on its own; one that
\* fails is swallowed; Promise.all resolves when the last one has settled
PurgeUnlink(r) ==
  /\ pc[r] = "purge_unlink"
  /\ \E n \in loc[r].snapshot, fails \in BOOLEAN :
       LET there == n \in Names(videoDir)
           gone == IF there /\ ~fails THEN {n} ELSE {}
           last == loc[r].snapshot = {n}
       IN  /\ fails => there
           /\ videoDir' = Without(videoDir, gone)
           /\ loc' = [q \in Req |->
                        IF q = r
                        THEN [loc[q] EXCEPT !.snapshot = @ \ {n},
                                !.purgeFault = @ \/ fails]
                        ELSE IF loc[q].id \in gone
                        THEN [loc[q] EXCEPT !.lostTo = loc[r].serial]
                        ELSE loc[q]]
           /\ log' = [q \in Req |->
                        IF q = r
                        THEN IF last THEN Append(log[q], "purge_end") ELSE log[q]
                        ELSE IF loc[q].id \in gone THEN Append(log[q], "lost")
                        ELSE log[q]]
           /\ pc' = [pc EXCEPT ![r] =
                       IF last THEN HandlerNext(req[r].route, "purge", req[r].hasIntro)
                       ELSE @]
  /\ UNCHANGED <<req, fetch, tmp, response, started, pending>>

\* ---------------------------------------------------------------- Encoders
\* ffmpeg (or copyFile) ended: the file is complete and holds the clips
Finish(dir, name, clips) ==
  {IF f.name = name THEN [f EXCEPT !.st = "complete", !.clips = clips] ELSE f :
     f \in dir}

\* mutant: the intro clip is built whenever an intro image was staged
BuildsIntro_WheneverStaged(introPath, introDuration) == introPath # NoName

\* line 540: if (introImagePath && introDuration > 0)
BuildsIntro(introPath, introDuration) ==
  introPath # NoName /\ ~introDuration.nan /\ introDuration.val > 0

\* the encode operation behind a route; imageToVideoCompressed is called by
\* none of the routes
Encoder(route) ==
  CASE route = "compressed" -> "imageToVideoCompressedWithIntro"
    [] route \in {"buffer", "stream"} -> "imageToVideo"
    [] OTHER -> "imageToVideoCompressed"

\* the Staged Input handed to the encoder is in /tmp
InputThere(r) == loc[r].mainPath \in Names(tmp)

\* imageToVideoCompressed, lines 562-564: fs.existsSync(inPath) fails and the
\* call is rejected
CompressedReject(r) ==
  /\ pc[r] = "encode"
  /\ Encoder(req[r].route) = "imageToVideoCompressed"
  /\ ~InputThere(r)
  /\ pc' = [pc EXCEPT ![r] = "rejected"]
  /\ UNCHANGED <<req, loc, fetch, tmp, videoDir, response, log, started, pending>>

\* imageToVideo, lines 452-479 (imageToVideoCompressed, lines 565-621):
\* ffmpeg is started and opens reel-<id>.mp4 in VIDEO_DIR;
\* imageToVideoCompressedWithIntro, lines 489-536: ffmpeg is started on the
\* main clip, which it opens in /tmp.  ffmpeg opens its output after it has
\* opened its inputs.
EncodeStart(r) ==
  /\ pc[r] = "encode"
  /\ InputThere(r)
  /\ LET id == ArtifactId(loc[r].serial)
         tmpMain == uuidv4(loc[r].serial, "main")
         tmpIntro == IF loc[r].introPath # NoName
                     THEN uuidv4(loc[r].serial, "intro") ELSE NoName
     IN  IF req[r].route = "compressed"
         THEN /\ loc' = [loc EXCEPT ![r] = [@ EXCEPT !.id = id, !.tmpMain = tmpMain,
                                                     !.tmpIntro = tmpIntro,
                                                     !.invoked = TRUE]]
              /\ tmp' = tmp \cup {File(tmpMain, EXT_MP4, 0, "partial")}
              /\ pc' = [pc EXCEPT ![r] = "enc_main"]
              /\ UNCHANGED videoDir
         ELSE /\ loc' = [loc EXCEPT ![r] = [@ EXCEPT !.id = id, !.invoked = TRUE]]
              /\ videoDir' = videoDir \cup {File(id, EXT_MP4, 0, "partial")}
              /\ pc' = [pc EXCEPT ![r] = "encoding"]
              /\ UNCHANGED tmp
  /\ log' = [log EXCEPT ![r] = Append(@, "encode_start")]
  /\ UNCHANGED <<req, fetch, response, started, pending>>

\* ffmpeg was run and fails before it opened its output, as it does when it
\* cannot open its input: the promise rejects (lines 482, 535, 624) and the
\* handler's catch block answers; imageToVideoCompressed runs ffmpeg only
\* when the input is there
EncodeSpawnError(r) ==
  /\ pc[r] = "encode"
  /\ Encoder(req[r].route) = "imageToVideoCompressed" => InputThere(r)
  /\ pc' = [pc EXCEPT ![r] = "done"]
  /\ loc' = [loc EXCEPT ![r] = [@ EXCEPT !.id = ArtifactId(loc[r].serial),
                                          !.invoked = TRUE]]
  /\ response' = [response EXCEPT ![r] = Caught(Plain("ffmpeg"))]
  /\ log' = [log EXCEPT ![r] = Append(@, "encode_start")]
  /\ UNCHANGED <<req, fetch, tmp, videoDir, started, pending>>

\* imageToVideo: cmd 'end', line 481
EncodeEnd(r) ==
  /\ pc[r] = "encoding"
  /\ videoDir' = Finish(videoDir, loc[r].id, <<Clip("main", loc[r].opts.duration)>>)
  /\ pc' = [pc EXCEPT ![r] = HandlerNext(req[r].route, "encode", req[r].hasIntro)]
  /\ log' = [log EXCEPT ![r] = Append(@, "encode_end")]
  /\ UNCHANGED <<req, loc, fetch, tmp, response, started, pending>>

\* imageToVideo: cmd 'error', line 482; what ffmpeg wrote stays where it is
EncodeError(r) ==
  /\ pc[r] = "encoding"
  /\ pc' = [pc EXCEPT ![r] = "done"]
  /\ response' = [response EXCEPT ![r] = Caught(Plain("ffmpeg"))]
  /\ UNCHANGED <<req, loc, fetch, tmp, videoDir, log, started, pending>>

\* main clip 'end', line 534: the clip is complete; line 540 decides what is
\* called next, makeStillClip or copyFile, and the function is at its await
MainEnd(r) ==
  /\ pc[r] = "enc_main"
  /\ tmp' = Finish(tmp, loc[r].tmpMain, <<Clip("main", loc[r].opts.duration)>>)
  /\ pc' = [pc EXCEPT ![r] =
              IF BuildsIntro(loc[r].introPath, loc[r].introDuration)
              THEN "intro_start" ELSE "copy_start"]
  /\ UNCHANGED <<req, loc, fetch, videoDir, response, log, started, pending>>

\* mutant: the rejection of the main clip is never answered
MainError_NoReply(r) ==
  /\ pc[r] = "enc_main"
  /\ pc' = [pc EXCEPT ![r] = "failed"]
  /\ UNCHANGED <<req, loc, fetch, tmp, videoDir, response, log, started, pending>>

\* main clip 'error', line 535
MainError(r) ==
  /\ pc[r] = "enc_main"
  /\ pc' = [pc EXCEPT ![r] = "done"]
  /\ response' = [response EXCEPT ![r] = Caught(Plain("ffmpeg"))]
  /\ UNCHANGED <<req, loc, fetch, tmp, videoDir, log, started, pending>>

\* makeStillClip, lines 657-672: the ffmpeg that was started opens the intro
\* clip in /tmp
IntroStart(r) ==
  /\ pc[r] = "intro_start"
  /\ tmp' = tmp \cup {File(loc[r].tmpIntro, EXT_MP4, 0, "partial")}
  /\ pc' = [pc EXCEPT ![r] = "enc_intro"]
  /\ UNCHANGED <<req, loc, fetch, videoDir, response, log, started, pending>>

\* makeStillClip 'end', line 670, then concatMp4s, lines 676-680: the list is
\* named and its writeFile awaited
IntroEnd(r) ==
  /\ pc[r] = "enc_intro"
  /\ tmp' = Finish(tmp, loc[r].tmpIntro, <<Clip("intro", loc[r].introDuration)>>)
  /\ loc' = [loc EXCEPT ![r] = [@ EXCEPT !.listPath = uuidv4(loc[r].serial, "concat")]]
  /\ pc' = [pc EXCEPT ![r] = "write_list"]
  /\ UNCHANGED <<req, fetch, videoDir, response, log, started, pending>>

\* makeStillClip 'error', line 671, before or after ffmpeg opened the intro
\* clip
IntroError(r) ==
  /\ pc[r] \in {"intro_start", "enc_intro"}
  /\ pc' = [pc EXCEPT ![r] = "done"]
  /\ response' = [response EXCEPT ![r] = Caught(Plain("ffmpeg"))]
  /\ UNCHANGED <<req, loc, fetch, tmp, videoDir, log, started, pending>>

\* writeFile, line 680, has opened the list: the file is in /tmp, empty
WriteListOpen(r) ==
  /\ pc[r] = "write_list"
  /\ tmp' = tmp \cup {File(loc[r].listPath, <<".", "t", "x", "t">>, 0, "partial")}
  /\ pc' = [pc EXCEPT ![r] = "write_body"]
  /\ UNCHANGED <<req, loc, fetch, videoDir, response, log, started, pending>>

\* writeFile resolved, line 680: the list is written, ffmpeg is about to be
\* called
WriteListEnd(r) ==
  /\ pc[r] = "write_body"
  /\ tmp' = Without(tmp, {loc[r].listPath})
              \cup {File(loc[r].listPath, <<".", "t", "x", "t">>, 1, "complete")}
  /\ pc' = [pc EXCEPT ![r] = "concat_start"]
  /\ UNCHANGED <<req, loc, fetch, videoDir, response, log, started, pending>>

\* writeFile rejected, line 680: concatMp4s throws and the handler's catch
\* block answers.  When the open failed the message cites the list's path
\* (`EACCES: permission denied, open '<path>'`); when the write failed the
\* message cites no path and the empty list stays
WriteListError(r) ==
  /\ pc[r] \in {"write_list", "write_body"}
  /\ pc' = [pc EXCEPT ![r] = "done"]
  /\ response' = [response EXCEPT ![r] =
                    Caught(IF pc[r] = "write_list"
                           THEN [Plain("writefile") EXCEPT !.names = {loc[r].listPath}]
                           ELSE Plain("writefile"))]
  /\ UNCHANGED <<req, loc, fetch, tmp, videoDir, log, started, pending>>

\* lines 682-695: the ffmpeg that was started on the list opens the final file
\* in VIDEO_DIR
ConcatStart(r) ==
  /\ pc[r] = "concat_start"
  /\ videoDir' = videoDir \cup {File(loc[r].id, EXT_MP4, 0, "partial")}
  /\ pc' = [pc EXCEPT ![r] = "concat"]
  /\ UNCHANGED <<req, loc, fetch, tmp, response, log, started, pending>>

\* the clips of a file of /tmp, none when the file is not there
ClipsOf(name) == IF name \in Names(tmp) THEN Entry(tmp, name).clips ELSE <<>>

\* concat 'end', line 687: the final file is complete; the unlink of the list
\* is awaited before the promise resolves
ConcatEnd(r) ==
  /\ pc[r] = "concat"
  /\ videoDir' = Finish(videoDir, loc[r].id,
                        ClipsOf(loc[r].tmpIntro) \o ClipsOf(loc[r].tmpMain))
  /\ pc' = [pc EXCEPT ![r] = "unlink_list"]
  /\ UNCHANGED <<req, loc, fetch, tmp, response, log, started, pending>>

\* concat 'error', line 691, before or after ffmpeg opened the final file:
\* the unlink of the list is awaited before the promise rejects with the error
ConcatError(r) ==
  /\ pc[r] \in {"concat_start", "concat"}
  /\ loc' = [loc EXCEPT ![r] = [@ EXCEPT !.err = Plain("ffmpeg")]]
  /\ pc' = [pc EXCEPT ![r] = "unlink_list"]
  /\ UNCHANGED <<req, fetch, tmp, videoDir, response, log, started, pending>>

\* lines 688 and 692: the unlink of the list has taken effect; its
\* continuation, which resolves or rejects the promise of concatMp4s, has
\* not run yet
UnlinkList(r) ==
  /\ pc[r] = "unlink_list"
  /\ tmp' \in Unlinked(tmp, loc[r].listPath)
  /\ pc' = [pc EXCEPT ![r] = IF loc[r].err # NoError THEN "rejecting"
                             ELSE "unlink_intro"]
  /\ UNCHANGED <<req, loc, fetch, videoDir, response, log, started, pending>>

\* line 550: the unlink of the intro clip settled
UnlinkIntro(r) ==
  /\ pc[r] = "unlink_intro"
  /\ tmp' \in Unlinked(tmp, loc[r].tmpIntro)
  /\ pc' = [pc EXCEPT ![r] = "unlink_main"]
  /\ UNCHANGED <<req, loc, fetch, videoDir, response, log, started, pending>>

\* copyFile, line 553, has created its destination in VIDEO_DIR
CopyStart(r) ==
  /\ pc[r] = "copy_start"
  /\ videoDir' = videoDir \cup {File(loc[r].id, EXT_MP4, 0, "partial")}
  /\ pc' = [pc EXCEPT ![r] = "copy"]
  /\ UNCHANGED <<req, loc, fetch, tmp, response, log, started, pending>>

\* copyFile resolved, line 553: the final file is complete
CopyEnd(r) ==
  /\ pc[r] = "copy"
  /\ videoDir' = Finish(videoDir, loc[r].id, ClipsOf(loc[r].tmpMain))
  /\ pc' = [pc EXCEPT ![r] = "unlink_main"]
  /\ UNCHANGED <<req, loc, fetch, tmp, response, log, started, pending>>

\* the message of the error copyFile rejects with: `ENOENT: no such file or
\* directory, copyfile '<src>' -> '<dest>'`
CopyFailed(src, dest) == [Plain("copyfile") EXCEPT !.names = {src, dest}]

\* copyFile, line 553, failed, before it created its destination or after:
\* Node tries to remove the destination it created; the promise rejects
\* later
CopyError(r) ==
  /\ pc[r] \in {"copy_start", "copy"}
  /\ \/ videoDir' = videoDir
     \/ pc[r] = "copy" /\ videoDir' = Without(videoDir, {loc[r].id})
  /\ loc' = [loc EXCEPT ![r] =
               [@ EXCEPT !.err = CopyFailed(loc[r].tmpMain, loc[r].id)]]
  /\ pc' = [pc EXCEPT ![r] = "rejecting"]
  /\ UNCHANGED <<req, fetch, tmp, response, log, started, pending>>

\* the promise of imageToVideoCompressedWithIntro rejected, line 768: the
\* handler's catch block sends the message of the error, lines 784-787
EncodeRejected(r) ==
  /\ pc[r] = "rejecting"
  /\ pc' = [pc EXCEPT ![r] = "done"]
  /\ response' = [response EXCEPT ![r] = Caught(loc[r].err)]
  /\ UNCHANGED <<req, loc, fetch, tmp, videoDir, log, started, pending>>

\* line 556: the unlink of the main clip settled;
\* imageToVideoCompressedWithIntro returns
UnlinkMain(r) ==
  /\ pc[r] = "unlink_main"
  /\ tmp' \in Unlinked(tmp, loc[r].tmpMain)
  /\ pc' = [pc EXCEPT ![r] = HandlerNext(req[r].route, "encode", req[r].hasIntro)]
  /\ log' = [log EXCEPT ![r] = Append(@, "encode_end")]
  /\ UNCHANGED <<req, loc, fetch, videoDir, response, started, pending>>

\* the staged inputs the success path unlinks: lines 720, 741, 775-776
Cleanup(l) == {l.mainPath, l.introPath} \ {NoName}

\* lines 720-723, 741-744, 775-783: the unlinks of the staged inputs are
\* issued with a callback that ignores their outcome, then res.json
Respond(r) ==
  /\ pc[r] = "respond"
  /\ pending' = pending \cup {Op("unlink", n, <<>>, loc[r].serial) : n \in Cleanup(loc[r])}
  /\ loc' = [loc EXCEPT ![r] = [@ EXCEPT !.released = @ \cup Cleanup(loc[r])]]
  /\ response' = [response EXCEPT ![r] =
                    [Replied(200, TRUE, loc[r].id, NoError)
                       EXCEPT !.reported = Report(loc[r].opts)]]
  /\ pc' = [pc EXCEPT ![r] = "done"]
  /\ log' = [log EXCEPT ![r] = Append(@, "respond")]
  /\ UNCHANGED <<req, fetch, tmp, videoDir, started>>

Handle(r) ==
  \/ AfterFetch(r)
  \/ PurgeList(r)
  \/ PurgeUnlink(r)
  \/ EncodeStart(r)
  \/ EncodeSpawnError(r)
  \/ EncodeEnd(r)
  \/ EncodeError(r)
  \/ MainEnd(r)
  \/ MainError(r)
  \/ IntroStart(r)
  \/ IntroEnd(r)
  \/ IntroError(r)
  \/ WriteListOpen(r)
  \/ WriteListEnd(r)
  \/ WriteListError(r)
  \/ ConcatStart(r)
  \/ ConcatEnd(r)
  \/ ConcatError(r)
  \/ UnlinkList(r)
  \/ UnlinkIntro(r)
  \/ CopyStart(r)
  \/ CopyEnd(r)
  \/ CopyError(r)
  \/ EncodeRejected(r)
  \/ UnlinkMain(r)
  \/ Respond(r)

\* requests whose control flows may overlap
Next ==
  \/ \E r \in Req : StartOverlapping(r) \/ Multer(r) \/ Download(r) \/ Handle(r)
  \/ Settle

Spec == Init /\ [][Next]_vars

\* requests processed one at a time: a request is received only after the
\* one before it was answered
NextSeq == Start("A") \/ Multer("A") \/ Download("A") \/ Handle("A") \/ Settle

InitSeq ==
  /\ pc = [r \in Req |-> "idle"]
  /\ req = [r \in Req |-> NoReq]
  /\ loc = [r \in Req |-> NoLoc]
  /\ fetch = [r \in Req |-> NoFetch]
  /\ tmp = {}
  /\ videoDir \in {{}, PreExisting}
  /\ response = [r \in Req |-> NoResponse]
  /\ log = [r \in Req |-> <<>>]
  /\ started = 0
  /\ pending = {}

SpecSeq == InitSeq /\ [][NextSeq]_vars

\* one request, of any route and any input, followed from its arrival to its
\* response: every download, every filesystem operation and every ffmpeg
\* process that was started comes to an end, and the continuation that awaits
\* it is run
StartLive == started = 0 /\ Start("A")

NextLive == StartLive \/ Multer("A") \/ Download("A") \/ Handle("A") \/ Settle

SpecLive ==
  /\ InitSeq /\ [][NextLive]_vars
  /\ WF_vars(Multer("A") \/ Download("A") \/ Handle("A") \/ Settle)

\* ---- one encode operation, called on a Staged Input that may have gone
\* from /tmp by the time of the call
EncodeCalls ==
  {q \in [route : Routes \cup {"none"}, hasUrl : BOOLEAN, url : {GoodSrc, NoSrc},
          hasFile : BOOLEAN, originalname : {UP_PNG, <<>>},
          hasIntro : BOOLEAN, introUrl : {GoodSrc, NoSrc},
          params : {NoParams, IntroParams, FrameParams}] :
     /\ q.hasUrl <=> q.url # NoSrc
     /\ q.hasFile <=> q.originalname # <<>>
     /\ q.hasIntro <=> q.introUrl # NoSrc
     /\ q.hasUrl # q.hasFile
     /\ q.hasFile => q.route = "buffer"
     /\ q.hasIntro => q.route = "compressed"
     /\ q.params = IntroParams => q.hasIntro
     /\ q.params = FrameParams => q.route = "stream"}

InitEncode ==
  /\ \E q \in EncodeCalls, there \in BOOLEAN :
       LET main == uuidv4(1, IF q.hasFile THEN "upload" ELSE "img")
           intro == uuidv4(1, "intro_img")
       IN  /\ req = [r \in Req |-> IF r = "A" THEN q ELSE NoReq]
           /\ loc = [r \in Req |->
                       IF r = "A"
                       THEN [NoLoc EXCEPT !.serial = 1,
                               !.opts = parseParams(q.params),
                               !.introDuration = IF q.route = "compressed"
                                                 THEN parseIntroDuration(q.params)
                                                 ELSE Num(0),
                               !.mainPath = main,
                               !.introPath = IF q.hasIntro THEN intro ELSE NoName]
                       ELSE NoLoc]
           /\ tmp = (IF there THEN {File(main, EXT_PNG, 1, "complete")} ELSE {})
                    \cup (IF q.hasIntro THEN {File(intro, EXT_PNG, 1, "complete")}
                          ELSE {})
           /\ log = [r \in Req |->
                       IF r = "A"
                       THEN <<"staged_main">>
                              \o (IF q.hasIntro THEN <<"staged_intro">> ELSE <<>>)
                              \o <<"purge_start", "purge_end">>
                       ELSE <<>>]
  /\ pc = [r \in Req |-> IF r = "A" THEN "encode" ELSE "idle"]
  /\ fetch = [r \in Req |-> NoFetch]
  /\ videoDir \in {{}, {OtherFile}, PreExisting}
  /\ response = [r \in Req |-> NoResponse]
  /\ started = 1
  /\ pending = {}

NextEncode ==
  \/ CompressedReject("A")
  \/ EncodeStart("A")
  \/ EncodeSpawnError("A")
  \/ EncodeEnd("A")
  \/ EncodeError("A")
  \/ MainEnd("A")
  \/ MainError("A")
  \/ IntroStart("A")
  \/ IntroEnd("A")
  \/ IntroError("A")
  \/ WriteListOpen("A")
  \/ WriteListEnd("A")
  \/ WriteListError("A")
  \/ ConcatStart("A")
  \/ ConcatEnd("A")
  \/ ConcatError("A")
  \/ UnlinkList("A")
  \/ UnlinkIntro("A")
  \/ CopyStart("A")
  \/ CopyEnd("A")
  \/ CopyError("A")
  \/ EncodeRejected("A")
  \/ UnlinkMain("A")

SpecEncode == InitEncode /\ [][NextEncode]_vars

\* ---- one request by url, with any text in its numeric parameters
ParamRequests ==
  {q \in [route : Routes, hasUrl : {TRUE}, url : {GoodSrc},
          hasFile : {FALSE}, originalname : {<<>>},
          hasIntro : BOOLEAN, introUrl : {GoodSrc, NoSrc},
          params : [duration : ParamTexts,
                    fps : {<<>>, TXT_0, TXT_91, TXT_ABC},
                    width : {<<>>, TXT_7, TXT_NEG, TXT_ABC},
                    height : {<<>>, TXT_7X, TXT_ABC},
                    introDuration : {<<>>, TXT_0, TXT_7, TXT_NEG, TXT_ABC, TXT_FRAC}]] :
     /\ (q.params.width # <<>> \/ q.params.height # <<>>) =>
          q.params.fps = <<>> /\ q.params.introDuration = <<>> /\ ~q.hasIntro
     /\ q.hasIntro <=> q.introUrl # NoSrc
     /\ q.hasIntro => q.route = "compressed"
     /\ q.params.introDuration # <<>> => q.route = "compressed"}

StartParams == pc["A"] = "idle" /\ \E q \in ParamRequests : Receive("A", q)

NextParams == StartParams \/ Download("A") \/ Handle("A") \/ Settle

SpecParams == InitSeq /\ [][NextParams]_vars

\* =================================================================== claims
Range(l) == {l[i] : i \in DOMAIN l}

\* position of the first occurrence of event e in l, 0 when there is none
Pos(l, e) ==
  IF e \in Range(l) THEN CHOOSE i \in DOMAIN l : l[i] = e /\ \A j \in DOMAIN l : l[j] = e => i <= j
  ELSE 0

Before(l, a, b) == Pos(l, a) > 0 /\ Pos(l, a) < Pos(l, b)

\* the files of /tmp of one kind that request r created
Mine(r, kinds) == {n \in Names(tmp) : n[1] = loc[r].serial /\ n[2] \in kinds}

StagedKinds == {"img", "intro_img", "upload"}
IntermediateKinds == {"main", "intro", "concat"}

\* a regular file of VIDEO_DIR named *.mp4, in any letter case
IsArtifactFile(f) == f.isFile /\ toLowerCase(f.ext) = EXT_MP4

\* the media type a content-type header names, without parameters
MediaType(ct) == trim(splitFirst(toLowerCase(ct)))
CtDisallowed(ct) == ct # <<>> /\ MediaType(ct) \notin ALLOWED_CONTENT_TYPES
CtUnrecognized(ct) == ct = <<>> \/ MediaType(ct) \notin ALLOWED_CONTENT_TYPES
UrlExtAllowed(url) == toLowerCase(extname(url)) \in {EXT_JPG, EXT_JPEG, EXT_PNG}

\* the download of r was refused and no file of it is in /tmp
Rejected(r) ==
  /\ fetch[r].phase \in {"request", "thrown"}
  /\ uuidv4(loc[r].serial, fetch[r].which) \notin Names(tmp)

\* C1: when a request is answered, the release of every Staged Input it
\* created (downloaded main image, downloaded intro image, upload temp file)
\* has been issued, on every exit path: none is in /tmp without its unlink
\* having been issued.
C1_StagedInputsReleased ==
  \A r \in Req : pc[r] = "done" => Mine(r, StagedKinds) \subseteq loc[r].released

\* C2: when the multi-segment encode has ended, with the final artifact or
\* with a failure, none of its intermediate files (main clip, intro clip,
\* concat list) is left in /tmp.
C2_IntermediatesDeleted ==
  \A r \in Req : pc[r] \in {"respond", "done"} => Mine(r, IntermediateKinds) = {}

\* C3: every entry the service placed in VIDEO_DIR is a finished artifact: no
\* file is there while it is being written or after its writer failed, and no
\* Staged Input or intermediate segment is there.
C3_OnlyFinishedArtifacts ==
  \A f \in videoDir : f.name[1] > 0 => f.st = "complete" /\ f.name[2] = "reel"

\* C4 as stated: with requests processed one at a time, after a successful
\* request VIDEO_DIR holds exactly one artifact file, the one the response names.
C4_ExactlyOneArtifact ==
  \A r \in Req :
    pc[r] = "done" /\ response[r].ok =>
      {f.name : f \in {e \in videoDir : IsArtifactFile(e)}} = {response[r].id}

\* C4 as amended: with requests processed one at a time, after a successful
\* request whose purge met no filesystem failure (the listing and every unlink
\* succeeded) VIDEO_DIR holds exactly one artifact file, the one the response
\* names.
C4_ExactlyOneArtifactAfterCleanPurge ==
  \A r \in Req :
    pc[r] = "done" /\ response[r].ok /\ ~loc[r].purgeFault =>
      {f.name : f \in {e \in videoDir : IsArtifactFile(e)}} = {response[r].id}

\* a second request succeeded after a clean purge that removed the artifact of
\* an earlier run and left the entries that are no artifacts
C4_Witness ==
  /\ pc["A"] = "done" /\ response["A"].ok /\ ~loc["A"].purgeFault
  /\ started = 2
  /\ OtherFile \in videoDir /\ OldArtifact \notin videoDir

\* C5: within one request the stages are sequential: the main image (and the
\* intro image when an intro source is given) is staged before the purge
\* starts, the purge ends before the encoder is started, and the encode ends
\* before the success response is built.
C5_StagesSequential ==
  \A r \in Req :
    LET l == log[r]
    IN  /\ "purge_start" \in Range(l) =>
             /\ Before(l, "staged_main", "purge_start")
             /\ req[r].hasIntro => Before(l, "staged_intro", "purge_start")
        /\ pc[r] = "purge_unlink" =>
             /\ loc[r].mainPath \in Names(tmp)
             /\ Entry(tmp, loc[r].mainPath).st = "complete"
             /\ req[r].hasIntro =>
                  /\ loc[r].introPath \in Names(tmp)
                  /\ Entry(tmp, loc[r].introPath).st = "complete"
        /\ "purge_end" \in Range(l) => Before(l, "purge_start", "purge_end")
        /\ "encode_start" \in Range(l) => Before(l, "purge_end", "encode_start")
        /\ "encode_end" \in Range(l) => Before(l, "encode_start", "encode_end")
        /\ "respond" \in Range(l) => Before(l, "encode_end", "respond")
        /\ response[r].ok => "respond" \in Range(l)

\* a request with an intro source went through every stage
C5_Witness ==
  \E r \in Req :
    /\ pc[r] = "done" /\ response[r].ok /\ req[r].hasIntro
    /\ log[r] = <<"staged_main", "staged_intro", "purge_start", "purge_end",
                  "encode_start", "encode_end", "respond">>

\* C6: nothing serialises purge-then-write over VIDEO_DIR: the listing of a
\* request's purge, when it succeeds, takes the artifact of every other
\* request that is in the directory at that moment, whatever stage that
\* request is in (still encoding, or encoded and not yet answered), and a
\* request whose encode ended is answered with success and its artifact's id
\* whether or not the artifact is still there.
C6_PurgeTakesArtifactsInFlight ==
  /\ [][\A r \in Req :
          (pc[r] = "purge" /\ pc'[r] # "purge" /\ ~loc'[r].purgeFault) =>
            \A q \in Req \ {r} :
              loc[q].id \in Names(videoDir) => loc[q].id \in loc'[r].snapshot]_vars
  /\ [](\A r \in Req :
          pc[r] = "done" /\ "encode_end" \in Range(log[r]) =>
            response[r].ok /\ response[r].id = loc[r].id)

\* request A's artifact was deleted by request B's purge before A answered,
\* and A answered with success naming the artifact that is gone
C6_Witness ==
  /\ pc["A"] = "done" /\ response["A"].ok
  /\ Before(log["A"], "encode_start", "lost") /\ Before(log["A"], "lost", "respond")
  /\ loc["A"].lostTo = loc["B"].serial
  /\ response["A"].id \notin Names(videoDir)

\* C7 as stated: a download whose content type is present and not an allowed
\* image type is refused and stages nothing, whatever the URL path extension.
C7_DisallowedTypeRejected ==
  \A r \in Req :
    fetch[r].phase # "none" /\ CtDisallowed(fetch[r].src.ct) => Rejected(r)

\* C7 as amended: a download whose content type is present and not an allowed
\* image type is refused and stages nothing whenever the URL path extension is
\* not one of .jpg, .jpeg, .png.
C7_DisallowedTypeRejectedWithoutExt ==
  \A r \in Req :
    (/\ fetch[r].phase # "none"
     /\ CtDisallowed(fetch[r].src.ct)
     /\ ~UrlExtAllowed(fetch[r].src.url))
    => Rejected(r)

\* a 200 response typed text/html for a path without an image extension was
\* refused as a disallowed type
C7_Witness ==
  \E r \in Req :
    /\ fetch[r].phase = "thrown" /\ fetch[r].err = OnlyPngOrJpg
    /\ fetch[r].src.status = 200
    /\ fetch[r].src.ct = CT_HTML /\ fetch[r].src.url = URL_GIF
    /\ tmp = {}

\* C8: a download whose content type is absent or unrecognized and whose URL
\* path extension is not .jpg, .jpeg or .png is refused; it returns no Staged
\* Input and leaves no file in /tmp.
C8_NoTypeNoExtRejected ==
  \A r \in Req :
    (/\ fetch[r].phase # "none"
     /\ CtUnrecognized(fetch[r].src.ct)
     /\ ~UrlExtAllowed(fetch[r].src.url))
    => Rejected(r)

\* a 200 response without content type for a path whose extension sits in a
\* directory name, not in the file name, was refused
C8_Witness ==
  \E r \in Req :
    /\ fetch[r].phase = "thrown" /\ fetch[r].err = OnlyPngOrJpg
    /\ fetch[r].src.status = 200
    /\ fetch[r].src.ct = <<>> /\ fetch[r].src.url = URL_DIR
    /\ tmp = {}

\* C9: a download whose content-length header exceeds MAX_IMAGE_BYTES is
\* refused, whatever number of bytes the body has, and leaves no file in /tmp.
C9_DeclaredOverCapRejected ==
  \A r \in Req :
    fetch[r].phase # "none" /\ fetch[r].src.declared > MAX_IMAGE_BYTES
      => Rejected(r)

\* C10: a Staged Input returned by a download holds at most MAX_IMAGE_BYTES
\* bytes, for every declared length and every chunking of the body.
C10_StagedWithinCap ==
  \A r \in Req :
    fetch[r].phase = "returned" =>
      /\ fetch[r].file \in Names(tmp)
      /\ Entry(tmp, fetch[r].file).bytes <= MAX_IMAGE_BYTES
      /\ Entry(tmp, fetch[r].file).bytes = Sum(fetch[r].src.chunks)

\* a streamed body of exactly the cap, delivered in two chunks under a
\* content-length that understates it, was staged
C10_Witness ==
  \E r \in Req :
    /\ fetch[r].phase = "returned" /\ fetch[r].strategy = "stream"
    /\ Len(fetch[r].src.chunks) = 2
    /\ fetch[r].src.declared # -1
    /\ fetch[r].src.declared < Sum(fetch[r].src.chunks)
    /\ Entry(tmp, fetch[r].file).bytes = MAX_IMAGE_BYTES

\* the number of chunks of a body that are counted until the count is over
\* the cap
CrossingAt(chunks) ==
  CHOOSE k \in 1..Len(chunks) :
    /\ OverCap(Sum(SubSeq(chunks, 1, k)))
    /\ \A j \in 1..(k - 1) : ~OverCap(Sum(SubSeq(chunks, 1, j)))

\* C11: in the streamed download the cap is enforced under way: no download
\* is still streaming with a byte count over MAX_IMAGE_BYTES; the download
\* that was aborted for its size counted no chunk after the one that crossed
\* the cap and wrote none of them; once it has thrown, its partial file is
\* not in /tmp and is not going to appear there; and the request it belongs
\* to is answered with that failure, having started neither purge nor encode.
C11_OverCapAbortsAndDiscards ==
  \A r \in Req :
    /\ fetch[r].phase = "streaming" => fetch[r].downloaded <= MAX_IMAGE_BYTES
    /\ (fetch[r].phase \in {"aborted", "thrown"} /\ fetch[r].err = ImageExceeds) =>
          /\ fetch[r].idx = CrossingAt(fetch[r].src.chunks)
          /\ fetch[r].flushed <= fetch[r].idx
    /\ (fetch[r].phase = "thrown" /\ fetch[r].err = ImageExceeds) =>
          /\ uuidv4(loc[r].serial, fetch[r].which) \notin Names(tmp)
          /\ \A p \in pending : p.name # uuidv4(loc[r].serial, fetch[r].which)
    /\ (pc[r] = "done" /\ response[r].error = ImageExceeds) =>
          {"purge_start", "encode_start"} \cap Range(log[r]) = {}

\* an integer within [lo, hi]
IntegerWithin(n, lo, hi) == ~n.nan /\ lo <= n.val /\ n.val <= hi

\* C12: whatever text the duration, fps and introDuration parameters carry
\* (absent, in range, out of range, not numeric), the values the handler uses
\* are integers within their bounds: duration in [1,90], frame rate in [1,60],
\* intro duration in [0,1].
C12_ParamsWithinBounds ==
  \A r \in Req :
    req[r].route # "none" =>
      /\ IntegerWithin(loc[r].opts.duration, 1, 90)
      /\ IntegerWithin(loc[r].opts.fps, 1, 60)
      /\ IntegerWithin(loc[r].introDuration, 0, 1)

\* a request that carries neither a url nor an uploaded file
NoInput(q) == q.route # "none" /\ ~q.hasUrl /\ ~q.hasFile

\* C13: a request that carries neither a url nor an uploaded file is answered
\* with status 400 by the step that receives it: that step starts no download,
\* no purge and no encode and leaves VIDEO_DIR and /tmp as they were, and the
\* request takes no further step.
C13_NoInputIsClientError ==
  /\ [][\A r \in Req :
          (NoInput(req'[r]) /\ started' # started) =>
            /\ pc'[r] = "done"
            /\ response'[r].status = 400 /\ ~response'[r].ok
            /\ response'[r].id = NoName
            /\ fetch'[r] = NoFetch
            /\ log'[r] = <<>>
            /\ videoDir' = videoDir
            /\ tmp' = tmp]_vars
  /\ [](\A r \in Req : NoInput(req[r]) => pc[r] = "done" /\ log[r] = <<>>)

\* a request without input was answered 400 after an earlier request had left
\* its artifact in VIDEO_DIR, which is still there
C13_Witness ==
  /\ started = 2 /\ NoInput(req["A"])
  /\ response["A"].status = 400
  /\ \E f \in videoDir : f.name = uuidv4(1, "reel") /\ f.st = "complete"

\* a request that carries an uploaded file and no url
UploadOnly(q) == q.route # "none" /\ q.hasFile /\ ~q.hasUrl

\* the declared file name ends in .jpg, .jpeg or .png, in any letter case
NameExtAllowed(name) == toLowerCase(extname(name)) \in {EXT_JPG, EXT_JPEG, EXT_PNG}

\* C14: a request whose input is an upload with a declared extension other
\* than .jpg, .jpeg, .png is refused by the first step of its handler, once
\* multer has stored the file: it fails with no artifact named, neither purge
\* nor encode is started and VIDEO_DIR is as it was.  On the route that takes
\* uploads (the buffer route) an upload with an allowed extension is the
\* Staged Input as multer stored it, and the request goes to the purge without
\* any download being started.
C14_UploadCheckedByExtension ==
  /\ [][\A r \in Req :
          (UploadOnly(req[r]) /\ pc[r] = "handler" /\ pc'[r] # "handler") =>
            IF ~NameExtAllowed(req[r].originalname)
            THEN /\ pc'[r] = "done"
                 /\ ~response'[r].ok /\ response'[r].status \in {400, 500}
                 /\ response'[r].id = NoName
                 /\ log'[r] = <<>>
                 /\ videoDir' = videoDir
            ELSE req[r].route = "buffer" =>
                   /\ pc'[r] = "purge"
                   /\ loc'[r].mainPath = uuidv4(loc[r].serial, "upload")
                   /\ loc'[r].mainPath \in Names(tmp')
                   /\ Entry(tmp', loc'[r].mainPath).st = "complete"
                   /\ videoDir' = videoDir]_vars
  /\ [](\A r \in Req :
          UploadOnly(req[r]) =>
            /\ fetch[r] = NoFetch
            /\ ~NameExtAllowed(req[r].originalname) =>
                  /\ pc[r] \in {"upload", "handler", "done"}
                  /\ pc[r] = "done" => ~response[r].ok
                  /\ log[r] = <<>>)

\* an upload named p.PNG was staged as stored, encoded and answered with
\* success by the buffer route, after an earlier request with an upload had
\* failed and left nothing in VIDEO_DIR
C14_Witness ==
  /\ started = 2
  /\ pc["A"] = "done" /\ response["A"].ok
  /\ req["A"].route = "buffer" /\ UploadOnly(req["A"])
  /\ req["A"].originalname = UP_PNG
  /\ loc["A"].mainPath = uuidv4(2, "upload")
  /\ uuidv4(1, "upload") \in Names(tmp)
  /\ \A f \in videoDir : f.name[1] # 1

\* C15: on each of the three routes, a request that carries only an upload
\* with an allowed extension is taken as input: it is not refused for lack of
\* a url, and it is answered with success when its encode ended.
C15_UploadAcceptedOnEveryRoute ==
  \A r \in Req :
    (/\ pc[r] = "done"
     /\ UploadOnly(req[r])
     /\ NameExtAllowed(req[r].originalname))
    => /\ response[r].status # 400
       /\ "staged_main" \in Range(log[r])

\* C16: a response to a failed request carries an error message and names no
\* artifact (no id, no path of a file in its message, and none of the values
\* reported with an artifact); a success
\* response is sent only after the encoder reported the end of the encode of
\* the artifact it names, which is then a finished file.
C16_FailureNamesNoArtifact ==
  \A r \in Req :
    pc[r] = "done" =>
      IF response[r].ok
      THEN /\ response[r].status = 200
           /\ response[r].id # NoName /\ response[r].id = loc[r].id
           /\ Before(log[r], "encode_end", "respond")
           /\ \E f \in videoDir : f.name = response[r].id /\ f.st = "complete"
      ELSE /\ response[r].status \in {400, 500}
           /\ response[r].error # NoError
           /\ response[r].id = NoName
           /\ response[r].error.names = {}
           /\ ~response[r].reported.present

\* C17: a failure inside the purge never fails the request: the purge is left
\* only towards the encode step (after the listing, through the unlinks), no
\* response is sent while it runs, and every request that started its purge
\* went on to start its encoder.
C17_PurgeFailureSwallowed ==
  /\ [][\A r \in Req :
          (pc[r] \in {"purge", "purge_unlink"} /\ pc'[r] # pc[r]) =>
            /\ pc'[r] \in {"purge_unlink", "encode"}
            /\ response'[r] = response[r]]_vars
  /\ [](\A r \in Req :
          ("purge_start" \in Range(log[r]) /\ pc[r] \in {"respond", "done"}) =>
            Before(log[r], "purge_end", "encode_start"))

\* a request whose purge could not delete the artifact of an earlier run was
\* encoded and answered with success, the stale artifact still in VIDEO_DIR
C17_Witness ==
  /\ pc["A"] = "done" /\ response["A"].ok /\ loc["A"].purgeFault
  /\ OldArtifact \in videoDir

\* C18: a download that fails for its size reports the observed byte count
\* and the limit, on every path that detects it: declared content-length,
\* bytes received under way, length of the buffered body.
C18_SizeFailureCitesBoth ==
  \A r \in Req :
    (fetch[r].phase \in {"aborted", "thrown"}
       /\ fetch[r].err.kind \in {"too_large", "exceeds"})
    => /\ fetch[r].err.limit = MAX_IMAGE_BYTES
       /\ fetch[r].err.observed > MAX_IMAGE_BYTES

\* C19: two requests with the same source and the same parameters that are
\* both answered with success are answered with different artifact
\* identifiers and with the same duration, frame rate, width and height.
C19_SameRequestNewArtifact ==
  \A r1, r2 \in Req :
    (/\ r1 # r2
     /\ pc[r1] = "done" /\ response[r1].ok
     /\ pc[r2] = "done" /\ response[r2].ok
     /\ req[r1] = req[r2])
    => /\ response[r1].id # response[r2].id
       /\ response[r1].reported.present /\ response[r2].reported.present
       /\ response[r1].reported = response[r2].reported

\* the same request, which sets duration, fps, width and height, succeeded
\* twice: two identifiers, the same values reported (the out-of-range frame
\* rate clamped to 60, the height read from the digits of "7x")
C19_Witness ==
  /\ pc["A"] = "done" /\ response["A"].ok
  /\ pc["B"] = "done" /\ response["B"].ok
  /\ req["A"] = req["B"] /\ req["A"].params = FrameParams
  /\ response["A"].id # response["B"].id
  /\ response["A"].reported =
       [present |-> TRUE, duration |-> toJSON(Num(7)), fps |-> toJSON(Num(60)),
        width |-> toJSON(Num(7)), height |-> toJSON(Num(7))]
  /\ response["B"].reported = response["A"].reported

\* C20: in each encode operation (imageToVideo,
\* imageToVideoCompressedWithIntro, imageToVideoCompressed), when the Staged
\* Input is not in /tmp at the time of the call, the operation fails without
\* the encoder having been run and without an output file having been created.
C20_MissingInputFailsBeforeEncoder ==
  \A r \in Req :
    (loc[r].mainPath # NoName /\ ~InputThere(r) /\ pc[r] # "encode") =>
      /\ pc[r] \in {"done", "rejected"}
      /\ ~loc[r].invoked
      /\ loc[r].id \notin Names(videoDir)
      /\ Mine(r, IntermediateKinds) = {}

\* the sum of the durations of the clips of a file
RECURSIVE TotalDuration(_)
TotalDuration(clips) ==
  IF clips = <<>> THEN 0 ELSE Head(clips).duration.val + TotalDuration(Tail(clips))

\* an intro source is supplied and the clamped intro duration is above 0
IntroAsked(q) ==
  /\ q.hasIntro
  /\ IntegerWithin(parseIntroDuration(q.params), 1, 1)

\* C21: on the compressed route, when the encode has ended the artifact holds
\* the intro clip followed by the main clip, of total duration introDuration +
\* mainDuration, exactly when an intro source is supplied and the clamped
\* intro duration is above 0; otherwise it holds the main clip alone, of
\* duration mainDuration, and no intro clip is ever created in /tmp.
C21_IntroThenMain ==
  \A r \in Req :
    req[r].route = "compressed" =>
      LET main == Clip("main", parseParams(req[r].params).duration)
          intro == Clip("intro", parseIntroDuration(req[r].params))
      IN  /\ ~IntroAsked(req[r]) => Mine(r, {"intro"}) = {}
          /\ "encode_end" \in Range(log[r]) =>
                \E f \in videoDir :
                  /\ f.name = loc[r].id /\ f.st = "complete"
                  /\ f.clips = IF IntroAsked(req[r]) THEN <<intro, main>> ELSE <<main>>
                  /\ ~main.duration.nan =>
                        TotalDuration(f.clips) =
                          main.duration.val
                            + (IF IntroAsked(req[r]) THEN intro.duration.val ELSE 0)

\* an intro asked for with introDuration=7, clamped to 1, in front of a main
\* clip of duration=91, clamped to 90: the artifact lasts 91 seconds
C21_Witness ==
  /\ pc["A"] = "done" /\ response["A"].ok
  /\ req["A"].hasIntro /\ req["A"].params.introDuration = TXT_7
  /\ req["A"].params.duration = TXT_91
  /\ \E f \in videoDir :
       /\ f.name = response["A"].id
       /\ Len(f.clips) = 2 /\ f.clips[1].kind = "intro" /\ f.clips[2].kind = "main"
       /\ TotalDuration(f.clips) = 91

\* C22: the width and height the handler uses are integers for every text the
\* request supplies: an absent value gives the configured default, and a
\* text that is not a number gives the default too, never a non-number.
C22_DimensionsAreIntegers ==
  \A r \in Req :
    req[r].route # "none" =>
      LET w == req[r].params.width
          h == req[r].params.height
      IN  /\ ~loc[r].opts.width.nan /\ ~loc[r].opts.height.nan
          /\ w = <<>> => loc[r].opts.width = Num(DEFAULT_WIDTH)
          /\ h = <<>> => loc[r].opts.height = Num(DEFAULT_HEIGHT)
          /\ (w # <<>> /\ \A i \in DOMAIN w : ~IsDigit(w[i])) =>
                loc[r].opts.width = Num(DEFAULT_WIDTH)
          /\ (h # <<>> /\ \A i \in DOMAIN h : ~IsDigit(h[i])) =>
                loc[r].opts.height = Num(DEFAULT_HEIGHT)

\* the entries of a directory that are no artifact files
NonArtifacts(dir) == {f \in dir : ~IsArtifactFile(f)}

\* request r takes a step of its purge
InPurge(r) ==
  pc[r] \in {"purge", "purge_unlink"} /\ (pc'[r] # pc[r] \/ loc'[r] # loc[r])

\* C23 as stated: when the purge of a request has run, every regular file of
\* VIDEO_DIR named *.mp4 (in any letter case) is deleted, every other entry
\* is as it was, and /tmp is as it was.
C23_PurgeDeletesEveryArtifact ==
  [][\A r \in Req :
       InPurge(r) =>
         /\ tmp' = tmp
         /\ pc'[r] = "encode" => videoDir' = NonArtifacts(videoDir)]_vars

\* C23 as amended: the purge deletes regular files of VIDEO_DIR named *.mp4 (in
\* any letter case) only, all of them when the listing and every unlink
\* succeeded; every other entry of VIDEO_DIR is as it was, and /tmp is as it
\* was.
C23_PurgeDeletesArtifactsOnly ==
  [][\A r \in Req :
       InPurge(r) =>
         /\ tmp' = tmp
         /\ videoDir' \subseteq videoDir
         /\ NonArtifacts(videoDir') = NonArtifacts(videoDir)
         /\ (pc'[r] = "encode" /\ ~loc'[r].purgeFault) =>
               videoDir' = NonArtifacts(videoDir)]_vars

\* the purge of the first request deleted old.MP4 and left notes.txt and the
\* directory named dir.mp4, with the Staged Input still in /tmp
C23_Witness ==
  /\ started = 1 /\ pc["A"] = "encode" /\ ~loc["A"].purgeFault
  /\ videoDir = {OtherFile, OldDir}
  /\ loc["A"].mainPath \in Names(tmp)

\* request r takes a step
Acts(r) == pc'[r] # pc[r] \/ fetch'[r] # fetch[r]

\* the names of the files of /tmp that a step creates, changes or deletes
Touched ==
  {n \in Names(tmp) \cup Names(tmp') :
     \/ n \notin Names(tmp)
     \/ n \notin Names(tmp')
     \/ Entry(tmp, n) # Entry(tmp', n)}

\* C24: with requests overlapping, every file of /tmp that a step creates,
\* writes or deletes (Staged Input, intermediate clip, concat list) is a file
\* of the request that takes the step, or that issued the operation which
\* settles in the step, and no two files of /tmp bear the same name.
C24_TempFilesPrivate ==
  /\ [][\A n \in Touched :
          /\ \A r \in Req : Acts(r) => loc'[r].serial = n[1]
          /\ \A p \in pending \ pending' : p.by = n[1] /\ p.name = n]_vars
  /\ [](\A f, g \in tmp : f.name = g.name => f = g)

\* two requests with an intro are both at their concat step, each with its
\* own main clip, intro clip and concat list in /tmp
C24_Witness ==
  /\ pc["A"] = "concat" /\ pc["B"] = "concat"
  /\ Cardinality(Mine("A", IntermediateKinds)) = 3
  /\ Cardinality(Mine("B", IntermediateKinds)) = 3
  /\ Mine("A", IntermediateKinds) \cap Mine("B", IntermediateKinds) = {}

\* the failures of fetch and validation
FetchFailures ==
  {"fetch_failed", "not_allowed", "too_large", "exceeds", "transfer",
   "upload_not_allowed"}

\* C25: a request that fails during fetch or validation (network error,
\* disallowed type, size exceeded, disallowed upload extension, failure of the
\* intro download) has not run the purge, and no step of a request that has
\* not started its purge changes VIDEO_DIR: with requests processed one at a
\* time, VIDEO_DIR is after such a request as it was before it.
C25_FailedFetchLeavesOutputDir ==
  /\ [][\A r \in Req :
          (Acts(r) /\ "purge_start" \notin Range(log'[r])) => videoDir' = videoDir]_vars
  /\ [](\A r \in Req :
          (pc[r] = "done" /\ response[r].error.kind \in FetchFailures) =>
            "purge_start" \notin Range(log[r]))
  /\ [](\A r \in Req :
          (UploadOnly(req[r]) /\ ~NameExtAllowed(req[r].originalname)) =>
            "purge_start" \notin Range(log[r]))

\* the second request staged its main image and failed on its intro image,
\* which went over the cap; the artifact of the first request is still there
C25_Witness ==
  /\ started = 2 /\ pc["A"] = "done"
  /\ response["A"].error = ImageExceeds
  /\ req["A"].url = GoodSrc /\ req["A"].introUrl = BigSrc
  /\ log["A"] = <<"staged_main">>
  /\ \E f \in videoDir : f.name = uuidv4(1, "reel") /\ f.st = "complete"

\* C26: the two downloads decide alike: whatever the status, content type,
\* URL path extension, declared length and body of the response, a download
\* that ended (its transfer not having failed) staged the body exactly when
\* the other download stages it, and under the same extension.
C26_StrategiesAgree ==
  \A r \in Req :
    (fetch[r].phase \in {"returned", "thrown"} /\ fetch[r].err # TransferFailed) =>
      LET mine == IF fetch[r].phase = "returned"
                  THEN Entry(tmp, fetch[r].file).ext ELSE None
          other == IF fetch[r].strategy = "stream"
                   THEN BufferOutcome(fetch[r].src)
                   ELSE StreamOutcome(fetch[r].src)
      IN  mine = other

\* C27: every request is answered, and answered once: a request that was
\* received and not answered on the spot is eventually answered, provided
\* each download, purge and encoder step it waits for ends; a response is sent
\* only to a request that has none yet, and ends the request.
C27_ExactlyOneResponse ==
  /\ [][\A r \in Req :
          (response'[r] # response[r] /\ started' = started) =>
            /\ response[r] = NoResponse
            /\ response'[r].status \in {200, 400, 500}
            /\ pc'[r] = "done"]_vars
  /\ [](\A r \in Req : pc[r] = "done" <=> response[r].status # 0)
  /\ \A r \in Req : (pc[r] \notin {"idle", "done"}) ~> (pc[r] = "done")

\* a request went through two downloads, the purge and the three encoder runs
\* of the intro path and was answered
C27_Witness ==
  /\ started = 1 /\ pc["A"] = "done" /\ response["A"].status = 200
  /\ req["A"].hasIntro
  /\ Len(log["A"]) = 7

====
